---- MODULE Spec2Model ----
(***************************************************************************)
(* A model of the skill registry of mini-agent: parse_skill.py (the        *)
(* section splitter, the description extractor, the usage parser) and      *)
(* skills.py (the built-in handlers, SkillManager's load, run_skill and    *)
(* get_tool_calls).                                                        *)
(*                                                                         *)
(* Text.  A Python str is modelled as a sequence of lines, and a line as a *)
(* record:                                                                 *)
(*   k     "h"  the line starts with a heading marker (1-5 '#' and         *)
(*              whitespace) followed by non-blank text,                    *)
(*         "t"  any other non-blank line,  "b"  a whitespace-only line;    *)
(*   ty    what the text of the line (after the marker, if any) is:        *)
(*         "word" a plain word w, "tmpl" a command template toks,          *)
(*         "dash" a line "- w: desc";                                      *)
(*   up    the word holds upper-case letters; rpad  trailing whitespace.   *)
(* A short string (a name, a path, an argument value, a shell command, a   *)
(* message) is a sequence of words.                                        *)
(*                                                                         *)
(* Outside this alphabet: a line that is a bare marker ("#" and nothing    *)
(* else, which the heading pattern's \s+ joins with the next line),        *)
(* leading whitespace of a line, and templates with "{0}" or format        *)
(* specifications, which re.findall and str.format read differently.       *)
(***************************************************************************)
EXTENDS Integers, Sequences, FiniteSets, TLC

VARIABLES
    listing,     \* skills_path.iterdir(): the entries of the skills root, in the order the OS lists them
    pc,          \* where SkillManager.__init__ is: "scan", "builtins", "ready" (returned), "failed" (raised)
    idx,         \* position in the loop over sorted(listing), then over the three built-ins
    skills,      \* self._skills: a dict, in insertion order
    err,         \* the exception __init__ raised; Return(<<>>) while none
    fs,          \* the host file system: path -> [exists, data]
    lastCall,    \* the tool_call of the last run_skill
    lastResult,  \* what that run_skill did: [raised, text]
    ran,         \* the shell commands that call ran
    invoked,     \* the handlers that call invoked
    schemas,     \* what the last get_tool_calls returned
    pin,         \* input of the pure function under check (parser specifications)
    pout         \* its result

vars == <<listing, pc, idx, skills, err, fs, lastCall, lastResult, ran, invoked, schemas, pin, pout>>

----------------------------------------------------------------------------
(* Helpers: sequences, and Python's dict (insertion-ordered, a second      *)
(* assignment to a key keeps its place and replaces its value).            *)

Range(s) == {s[i] : i \in DOMAIN s}

SetMin(S) == CHOOSE x \in S : \A y \in S : x <= y

SetMax(S) == CHOOSE x \in S : \A y \in S : x >= y

RECURSIVE Flatten(_)
Flatten(ss) == IF ss = <<>> THEN <<>> ELSE Head(ss) \o Flatten(Tail(ss))

DictHas(d, key) == \E i \in DOMAIN d : d[i].key = key

DictGet(d, key) == d[CHOOSE i \in DOMAIN d : d[i].key = key].val

DictPut(d, key, val) ==
    IF DictHas(d, key)
    THEN [i \in DOMAIN d |-> IF d[i].key = key THEN [key |-> key, val |-> val] ELSE d[i]]
    ELSE Append(d, [key |-> key, val |-> val])

DictKeys(d) == [i \in DOMAIN d |-> d[i].key]

----------------------------------------------------------------------------
(* Lines and str methods.                                                  *)

Line(k, ty, w, toks, desc, up, rpad) ==
    [k |-> k, ty |-> ty, w |-> w, toks |-> toks, desc |-> desc, up |-> up, rpad |-> rpad]

Blank == Line("b", "word", "", <<>>, "", FALSE, FALSE)

Word(w) == Line("t", "word", w, <<>>, "", FALSE, FALSE)

Heading(w) == Line("h", "word", w, <<>>, "", FALSE, FALSE)

Lit(v) == [ph |-> FALSE, esc |-> FALSE, v |-> v]

Ph(v) == [ph |-> TRUE, esc |-> FALSE, v |-> v]

\* "{{v}}": re.findall finds {v} in it, str.format reads it as the text "{v}"
Esc(v) == [ph |-> TRUE, esc |-> TRUE, v |-> v]

Template(toks) == Line("t", "tmpl", "", toks, "", FALSE, FALSE)

Dash(key, desc) == Line("t", "dash", key, <<>>, desc, FALSE, FALSE)

IsBlank(l) == l.k = "b"

\* line.strip() of one non-blank line
StripLine(l) == [l EXCEPT !.rpad = FALSE]

\* s.strip() of a str of several lines: the blank lines at both ends go, and
\* the trailing whitespace of the last line left
Strip(s) ==
    LET nb == {i \in DOMAIN s : ~IsBlank(s[i])}
    IN  IF nb = {} THEN <<>>
        ELSE LET lo == SetMin(nb)
                 hi == SetMax(nb)
             IN  [i \in 1..(hi - lo + 1) |->
                    IF i = hi - lo + 1 THEN StripLine(s[lo + i - 1]) ELSE s[lo + i - 1]]

\* s.lower()
Lower(s) == [i \in DOMAIN s |-> [s[i] EXCEPT !.up = FALSE]]

\* re.sub(r'^#{1,5}\s+', '', s): a marker at the very start of s goes
RemoveMarker(s) ==
    IF s # <<>> /\ s[1].k = "h" THEN [s EXCEPT ![1].k = "t"] ELSE s

\* [line.strip() for line in s.split('\n') if line.strip()]
NonBlankLines(s) ==
    LET nb == SelectSeq(s, LAMBDA l : ~IsBlank(l))
    IN  [i \in DOMAIN nb |-> StripLine(nb[i])]

----------------------------------------------------------------------------
(* parse_skill.py: split_markdown_by_titles                                *)

\* re.split(r'(?m)^(#{1,5}\s+.+)$', md_content): the text before the first
\* heading line, then each heading line followed by the text after it
RECURSIVE ReSplitFrom(_, _, _)
ReSplitFrom(doc, i, cur) ==
    IF i > Len(doc) THEN <<cur>>
    ELSE IF doc[i].k = "h" THEN <<cur, <<doc[i]>>>> \o ReSplitFrom(doc, i + 1, <<>>)
    ELSE ReSplitFrom(doc, i + 1, Append(cur, doc[i]))

ReSplit(doc) == ReSplitFrom(doc, 1, <<>>)

\* if parts and not parts[0].strip(): parts.pop(0)
PopLeading(parts) ==
    IF parts # <<>> /\ Strip(parts[1]) = <<>> THEN Tail(parts) ELSE parts

\* for i in range(0, len(parts), 2): if i + 1 < len(parts): sections[title] = content
RECURSIVE PairUp(_, _, _)
PairUp(parts, i, sections) ==
    IF i + 1 > Len(parts) THEN sections
    ELSE LET title   == Lower(Strip(RemoveMarker(parts[i])))
             content == Strip(parts[i + 1])
         IN  PairUp(parts, i + 2, DictPut(sections, title, content))

split_markdown_by_titles(md_content) == PairUp(PopLeading(ReSplit(md_content)), 1, <<>>)

----------------------------------------------------------------------------
(* Outcomes of a Python call: a returned value or a raised exception.      *)

Return(val) == [raised |-> FALSE, val |-> val, exc |-> "", msg |-> <<>>]

Raise(exc, msg) == [raised |-> TRUE, val |-> <<>>, exc |-> exc, msg |-> msg]

----------------------------------------------------------------------------
(* parse_skill.py: parse_description                                       *)

\* ' '.join(lines): the lines, separated by single spaces
parse_description(description) ==
    LET lines == NonBlankLines(description)
    IN  IF lines = <<>>
        THEN Raise("ValueError", <<"Description", "section", "is", "empty">>)
        ELSE Return(lines)

----------------------------------------------------------------------------
(* parse_skill.py: parse_usage                                             *)

\* re.findall(r'\{(\w+?)\}', command_template): every occurrence, in order
FindPlaceholders(line) ==
    LET phs == SelectSeq(line.toks, LAMBDA t : t.ph)
    IN  [i \in DOMAIN phs |-> phs[i].v]

\* re.match(r'\s*\-\s*(\w+)\s*:\s*(.*)', line)
DashMatch(line) == line.k = "t" /\ line.ty = "dash"

\* for line in lines[1:]: if match: arg_descriptions[key.strip()] = desc.strip()
RECURSIVE ArgDescriptions(_, _, _)
ArgDescriptions(lines, i, d) ==
    IF i > Len(lines) THEN d
    ELSE ArgDescriptions(lines, i + 1,
            IF DashMatch(lines[i]) THEN DictPut(d, lines[i].w, lines[i].desc) ELSE d)

\* FirstMissing as a loop over reversed(placeholders) would compute it
FirstMissing_Last(placeholders, arg_descriptions) ==
    LET missing == {i \in DOMAIN placeholders : ~DictHas(arg_descriptions, placeholders[i])}
    IN  IF missing = {} THEN 0 ELSE SetMax(missing)

\* for p in placeholders: if p not in arg_descriptions: raise: the place of
\* the first such p, 0 when there is none
FirstMissing(placeholders, arg_descriptions) ==
    LET missing == {i \in DOMAIN placeholders : ~DictHas(arg_descriptions, placeholders[i])}
    IN  IF missing = {} THEN 0 ELSE SetMin(missing)

\* Properties as the comprehension without `if key in placeholders` would compute it
Properties_Unfiltered(arg_descriptions, placeholders) == arg_descriptions

\* {key: {...desc} for key, desc in arg_descriptions.items() if key in placeholders}
Properties(arg_descriptions, placeholders) ==
    SelectSeq(arg_descriptions, LAMBDA e : e.key \in Range(placeholders))

parse_usage(usage) ==
    LET lines == NonBlankLines(usage)
    IN  IF lines = <<>>
        THEN Raise("ValueError", <<"Usage", "section", "is", "empty">>)
        ELSE LET command_template == lines[1]
                 placeholders     == FindPlaceholders(command_template)
                 arg_descriptions == ArgDescriptions(lines, 2, <<>>)
                 m                == FirstMissing(placeholders, arg_descriptions)
             IN  IF m # 0
                 THEN Raise("ValueError",
                            <<"Missing", "description", "for", "parameter:", placeholders[m]>>)
                 ELSE Return([template    |-> command_template,
                              type        |-> "function",
                              name        |-> "",
                              description |-> <<>>,
                              properties  |-> Properties(arg_descriptions, placeholders),
                              required    |-> placeholders])

----------------------------------------------------------------------------
(* parse_skill.py: parse_skill.  entry is a directory holding SKILL.md:    *)
(* [name, kind, doc].                                                      *)

parse_skill(entry) ==
    LET sections == split_markdown_by_titles(entry.doc)
    IN  IF ~DictHas(sections, <<Word("usage")>>)
        THEN Raise("ValueError", <<"No", "usage", "found", "in", "SKILL.md">>)
        ELSE IF ~DictHas(sections, <<Word("description")>>)
        THEN Raise("ValueError", <<"No", "description", "found", "in", "SKILL.md">>)
        ELSE LET description == parse_description(DictGet(sections, <<Word("description")>>))
                 skill       == parse_usage(DictGet(sections, <<Word("usage")>>))
             IN  IF description.raised THEN description
                 ELSE IF skill.raised THEN skill
                 ELSE Return([skill.val EXCEPT !.name = entry.name,
                                               !.description = description.val])

----------------------------------------------------------------------------
(* Bounded inputs of the parser specifications.                            *)

MaxDocLines == 4

MaxTemplateToks == 3

MaxDashLines == 3

SeqsUpTo(S, n) == UNION {[1..m -> S] : m \in 0..n}

\* the lines a document under split_markdown_by_titles is made of:
\* "# usage", "## Usage  ", "# description", "usage", "foo  ", ""
SplitLines ==
    { Heading("usage"),
      [Heading("usage") EXCEPT !.up = TRUE, !.rpad = TRUE],
      Heading("description"),
      Word("usage"),
      [Word("foo") EXCEPT !.rpad = TRUE],
      Blank }

SplitDocs == SeqsUpTo(SplitLines, MaxDocLines)

\* command templates: 1..MaxTemplateToks tokens among  ls  {a}  {b}
Templates == {Template(t) : t \in SeqsUpTo({Lit("ls"), Ph("a"), Ph("b")}, MaxTemplateToks) \ {<<>>}}

\* the lines after the template: "- a: d1", "- a: d2 ", "- b: d1", "- c: d1",
\* "note", ""
DashLines ==
    { Dash("a", "d1"), [Dash("a", "d2") EXCEPT !.rpad = TRUE], Dash("b", "d1"),
      Dash("c", "d1"), Word("note"), Blank }

\* usage sections: nothing but blank lines, or (after an optional blank
\* line) a first line that is a template or a dash line, and
\* up to MaxDashLines lines
UsageBodies ==
    {<<>>, <<Blank>>} \cup
    { lead \o <<first>> \o rest :
        lead \in {<<>>, <<Blank>>},
        first \in Templates \cup {Dash("a", "d1")},
        rest \in SeqsUpTo(DashLines, MaxDashLines) }

NoCall == [name |-> "", arguments |-> [valid |-> FALSE, object |-> FALSE, kw |-> <<>>]]

NoResult == [raised |-> FALSE, text |-> <<>>]

\* the registry's variables, in a specification that checks a parser alone
RegistryIdle ==
    /\ listing = <<>>
    /\ idx = 0
    /\ skills = <<>>
    /\ err = Return(<<>>)
    /\ fs = <<>>
    /\ lastCall = NoCall
    /\ lastResult = NoResult
    /\ ran = <<>>
    /\ invoked = <<>>
    /\ schemas = <<>>

RegistryVars == <<listing, idx, skills, err, fs, lastCall, lastResult, ran, invoked, schemas>>

----------------------------------------------------------------------------
(* SpecSplit: split_markdown_by_titles applied to a bounded document.      *)

InitSplit ==
    /\ pc = "split"
    /\ pin \in SplitDocs
    /\ pout = <<>>
    /\ RegistryIdle

SplitStep ==
    /\ pc = "split"
    /\ pout' = split_markdown_by_titles(pin)
    /\ pc' = "split_done"
    /\ UNCHANGED <<pin, RegistryVars>>

NextSplit == SplitStep

SpecSplit == InitSplit /\ [][NextSplit]_vars

----------------------------------------------------------------------------
(* SpecUsage: parse_usage applied to a bounded usage section.              *)

InitUsage ==
    /\ pc = "usage"
    /\ pin \in UsageBodies
    /\ pout = Return(<<>>)
    /\ RegistryIdle

UsageStep ==
    /\ pc = "usage"
    /\ pout' = parse_usage(pin)
    /\ pc' = "usage_done"
    /\ UNCHANGED <<pin, RegistryVars>>

NextUsage == UsageStep

SpecUsage == InitUsage /\ [][NextUsage]_vars

----------------------------------------------------------------------------
(* Claims about the parsers.                                               *)

HeadingIdx(doc) == {i \in DOMAIN doc : doc[i].k = "h"}

\* a heading's text, lower-cased and trimmed
TitleOf(l) == <<[l EXCEPT !.k = "t", !.up = FALSE, !.rpad = FALSE]>>

\* the trimmed text between heading line i and the next heading line, or the
\* end of the document
TextAfterHeading(doc, i) ==
    LET later == {j \in HeadingIdx(doc) : j > i}
        stop  == IF later = {} THEN Len(doc) + 1 ELSE SetMin(later)
    IN  Strip(SubSeq(doc, i + 1, stop - 1))

\* no later heading has the same title (a later one overwrites, 4.1)
LastOfItsTitle(doc, i) ==
    \A j \in HeadingIdx(doc) : j > i => TitleOf(doc[j]) # TitleOf(doc[i])

HeadingsMapToBodies(doc, sections) ==
    /\ Range(DictKeys(sections)) = {TitleOf(doc[i]) : i \in HeadingIdx(doc)}
    /\ \A i \in HeadingIdx(doc) :
          LastOfItsTitle(doc, i) =>
              /\ DictHas(sections, TitleOf(doc[i]))
              /\ DictGet(sections, TitleOf(doc[i])) = TextAfterHeading(doc, i)

HasPreamble(doc) ==
    \E i \in DOMAIN doc : ~IsBlank(doc[i]) /\ doc[i].k # "h" /\ \A j \in HeadingIdx(doc) : i < j

\* C5: for any document, split_markdown_by_titles maps each heading
\* (lower-cased, trimmed) to exactly the trimmed text between that heading
\* line and the next heading line or the end of the document; text before
\* the first heading, blank or not, is discarded and never becomes a key or
\* a body; a document with no headings yields an empty mapping.
C5_SplitMapsHeadingsToBodies ==
    pc = "split_done" => HeadingsMapToBodies(pin, pout)

\* The same mapping, for the documents that hold nothing but blank lines
\* before their first heading (the case the pop of parts[0] covers).
SplitCorrectWithoutPreamble ==
    (pc = "split_done" /\ ~HasPreamble(pin)) => HeadingsMapToBodies(pin, pout)

\* the names of a template's placeholders in order of first appearance,
\* duplicates removed
RECURSIVE FirstAppearances(_, _)
FirstAppearances(toks, seen) ==
    IF toks = <<>> THEN <<>>
    ELSE IF Head(toks).ph /\ Head(toks).v \notin seen
         THEN <<Head(toks).v>> \o FirstAppearances(Tail(toks), seen \cup {Head(toks).v})
         ELSE FirstAppearances(Tail(toks), seen)

\* the first non-blank line of a usage section: its command template
TemplateLine(usage) == usage[SetMin({i \in DOMAIN usage : ~IsBlank(usage[i])})]

HasLines(usage) == \E i \in DOMAIN usage : ~IsBlank(usage[i])

\* the identifiers the dash lines after the template document
Documented(usage) ==
    LET first == SetMin({i \in DOMAIN usage : ~IsBlank(usage[i])})
    IN  {usage[i].w : i \in {j \in DOMAIN usage : j > first /\ usage[j].k = "t" /\ usage[j].ty = "dash"}}

PlaceholderSet(usage) == {t.v : t \in {u \in Range(TemplateLine(usage).toks) : u.ph}}

\* C4: for every usage section parse_usage accepts, `required` is the
\* sequence of the template's placeholder names in order of first
\* appearance with duplicates removed ("{b} {a} {b}" gives [b, a]).
C4_RequiredIsFirstAppearanceOrder ==
    (pc = "usage_done" /\ ~pout.raised) =>
        pout.val.required = FirstAppearances(TemplateLine(pin).toks, {})

\* `required` holds the placeholder names in order of appearance, one per
\* occurrence: what parse_usage returns.
RequiredIsEveryOccurrence ==
    (pc = "usage_done" /\ ~pout.raised) =>
        /\ Range(pout.val.required) = PlaceholderSet(pin)
        /\ Len(pout.val.required) = Len(SelectSeq(TemplateLine(pin).toks, LAMBDA t : t.ph))

\* C9: parse_usage fails on the first placeholder, in template order, that
\* has no dash-line description, and the error names exactly that
\* placeholder even when several are undocumented; it succeeds only when
\* every placeholder has a description.
C9_FirstUndocumentedPlaceholderNamed ==
    pc = "usage_done" =>
        /\ ~pout.raised => (HasLines(pin) /\ PlaceholderSet(pin) \subseteq Documented(pin))
        /\ (HasLines(pin) /\ ~(PlaceholderSet(pin) \subseteq Documented(pin))) =>
              LET toks  == TemplateLine(pin).toks
                  undoc == {i \in DOMAIN toks : toks[i].ph /\ toks[i].v \notin Documented(pin)}
              IN  /\ pout.raised
                  /\ pout.exc = "ValueError"
                  /\ pout.msg = <<"Missing", "description", "for", "parameter:", toks[SetMin(undoc)].v>>

\* C9's case: two different placeholders are undocumented, the one that
\* comes second in the template is not the one named.
C9_Witness ==
    /\ pc = "usage_done"
    /\ HasLines(pin)
    /\ Cardinality(PlaceholderSet(pin) \ Documented(pin)) = 2
    /\ pout.raised
    /\ pout.msg[5] = FirstAppearances(TemplateLine(pin).toks, {})[1]

\* C10: for every schema of a successful parse, the keys of `properties`,
\* the placeholder names of the template and the names in `required` are
\* the same set; each placeholder has exactly one property, with a
\* description; a dash-line identifier that is no placeholder is in neither.
C10_PropertiesArePlaceholders ==
    (pc = "usage_done" /\ ~pout.raised) =>
        LET props == pout.val.properties
        IN  /\ Range(DictKeys(props)) = PlaceholderSet(pin)
            /\ Range(pout.val.required) = PlaceholderSet(pin)
            /\ \A i, j \in DOMAIN props : props[i].key = props[j].key => i = j
            /\ \A i \in DOMAIN props :
                  \E l \in Range(pin) : l.k = "t" /\ l.ty = "dash" /\ l.w = props[i].key
                                        /\ l.desc = props[i].val
            /\ \A x \in Documented(pin) \ PlaceholderSet(pin) :
                  x \notin Range(DictKeys(props)) /\ x \notin Range(pout.val.required)

\* C10's case: a successful parse of a template with two placeholders and a
\* dash line for an identifier that is no placeholder.
C10_Witness ==
    /\ pc = "usage_done"
    /\ ~pout.raised
    /\ Cardinality(PlaceholderSet(pin)) = 2
    /\ Documented(pin) \ PlaceholderSet(pin) # {}
    /\ Len(pout.val.properties) = 2

----------------------------------------------------------------------------
(* skills.py: the host (file system and shell) and the built-in handlers.  *)
(* A handler's outcome: [out, ran, fs]: what it returned or raised, the    *)
(* shell commands it ran, the file system it left.                         *)

Paths == {<<"a.txt">>, <<"missing/b.txt">>}

\* open(path, 'w') creates the file only where the parent directory exists
ParentExists(path) == path = <<"a.txt">>

NoFile == [exists |-> FALSE, data |-> <<>>]

Effect(out, cmds, files) == [out |-> out, ran |-> cmds, fs |-> files]

\* subprocess.run(command, shell=True, capture_output=True, text=True): the
\* shell's answer to the commands the model issues
Shell(command) ==
    IF command = <<>> THEN [returncode |-> 0, stdout |-> <<>>, stderr |-> <<>>]
    ELSE IF Head(command) = "echo"
    THEN [returncode |-> 0, stdout |-> Tail(command), stderr |-> <<>>]
    ELSE IF command = <<"exit", "3">>
    THEN [returncode |-> 3, stdout |-> <<>>, stderr |-> <<>>]
    ELSE IF Head(command) = "#"
    THEN [returncode |-> 0, stdout |-> <<>>, stderr |-> <<>>]
    ELSE [returncode |-> 127, stdout |-> <<>>, stderr |-> <<"sh:">> \o command \o <<"command", "unknown">>]

read_file(kw, files) ==
    IF "file_path" \notin DOMAIN kw
    THEN Effect(Raise("ValueError", <<"Missing", "parameter:", "file_path">>), <<>>, files)
    ELSE IF ~files[kw.file_path].exists
    THEN Effect(Raise("FileNotFoundError", <<"No", "such", "file", "or", "directory:">> \o kw.file_path),
                <<>>, files)
    ELSE Effect(Return(files[kw.file_path].data), <<>>, files)

write_file(kw, files) ==
    IF "file_path" \notin DOMAIN kw
    THEN Effect(Raise("ValueError", <<"Missing", "parameter:", "file_path">>), <<>>, files)
    ELSE IF "content" \notin DOMAIN kw
    THEN Effect(Raise("ValueError", <<"Missing", "parameter:", "content">>), <<>>, files)
    ELSE IF ~ParentExists(kw.file_path)
    THEN Effect(Raise("FileNotFoundError", <<"No", "such", "file", "or", "directory:">> \o kw.file_path),
                <<>>, files)
    ELSE Effect(Return(<<"None">>), <<>>,
                [files EXCEPT ![kw.file_path] = [exists |-> TRUE, data |-> kw.content]])

\* the names exec_command's body can read: its locals, and the module's globals
ExecCommandNames ==
    {"kw", "command", "result", "exit_code", "stdout", "stderr",
     "json", "subprocess", "Path", "parse_skill", "read_file", "write_file", "exec_command",
     "Skill", "SkillManager"}

\* an f-string over the names `names` and their values: NameError at the
\* first name that is not defined
FString(names, text) ==
    LET undefined == {i \in DOMAIN names : names[i] \notin ExecCommandNames}
    IN  IF undefined # {}
        THEN Raise("NameError", <<"name", names[SetMin(undefined)], "is", "not", "defined">>)
        ELSE Return(text)

exec_command(kw, files) ==
    IF "command" \notin DOMAIN kw
    THEN Effect(Raise("ValueError", <<"Missing", "parameter:", "command">>), <<>>, files)
    ELSE LET command == kw.command
             result  == Shell(command)
         IN  IF result.returncode # 0
             THEN Effect(FString(<<"exit_code", "stdout", "stderror">>,
                                 <<"Error", ToString(result.returncode)>> \o result.stdout \o result.stderr),
                         <<command>>, files)
             ELSE Effect(FString(<<"stdout", "stderror">>, result.stdout \o result.stderr),
                         <<command>>, files)

\* the words of a line, as str.format sees them
LineWords(line, kw) ==
    (IF line.k = "h" THEN <<"#">> ELSE <<>>) \o
    (IF line.ty = "tmpl"
     THEN Flatten([i \in DOMAIN line.toks |->
                     IF line.toks[i].esc THEN <<"{", line.toks[i].v, "}">>
                     ELSE IF line.toks[i].ph THEN kw[line.toks[i].v]
                     ELSE <<line.toks[i].v>>])
     ELSE IF line.ty = "dash" THEN <<"-", line.w, ":", line.desc>>
     ELSE <<line.w>>)

\* templ.format(**kw): KeyError at the first placeholder kw does not bind
Format(templ, kw) ==
    LET unbound == {i \in DOMAIN templ.toks :
                        templ.toks[i].ph /\ ~templ.toks[i].esc /\ templ.toks[i].v \notin DOMAIN kw}
    IN  IF unbound # {}
        THEN Raise("KeyError", <<"'", templ.toks[SetMin(unbound)].v, "'">>)
        ELSE Return(LineWords(templ, kw))

\* make_run_skill(templ).run_skill(**kw)
run_templated(templ, kw, files) ==
    LET command == Format(templ, kw)
    IN  IF command.raised THEN Effect(command, <<>>, files)
        ELSE exec_command([command |-> command.val], files)

\* skill.run(**kw), for the handler a registry entry is bound to
RunHandler(run, kw, files) ==
    CASE run.kind = "template"     -> run_templated(run.templ, kw, files)
      [] run.kind = "read_file"    -> read_file(kw, files)
      [] run.kind = "write_file"   -> write_file(kw, files)
      [] run.kind = "exec_command" -> exec_command(kw, files)

----------------------------------------------------------------------------
(* skills.py: SkillManager.                                                *)

\* the names a directory entry of the skills root may have, in the order
\* sorted() puts them (lexicographic)
DirNames == <<"exec_command", "greet", "hello_world">>

Rank(name) == CHOOSE i \in DOMAIN DirNames : DirNames[i] = name

\* Sorted as a loop over skills_path.iterdir() without sorted() would compute it
Sorted_ListingOrder(entries) == entries

\* sorted(skills_path.iterdir())
Sorted(entries) ==
    [i \in DOMAIN entries |->
        CHOOSE e \in Range(entries) :
            Cardinality({f \in Range(entries) : Rank(f.name) < Rank(e.name)}) = i - 1]

ToolCall(name, description, properties, required) ==
    [type |-> "function", name |-> name, description |-> description,
     properties |-> properties, required |-> required]

Property(key, description) == [key |-> key, val |-> description]

Builtin(kind) == [kind |-> kind, templ |-> Blank]

\* the three built-ins, in the order __init__ registers them
BuiltinSkills ==
    << [tool_call |-> ToolCall("read_file", <<Word("Read and return the contents of a file.")>>,
                               <<Property("file_path", "The path to the file to read")>>,
                               <<"file_path">>),
        func |-> Builtin("read_file")],
       [tool_call |-> ToolCall("write_file", <<Word("Write content to a file.")>>,
                               <<Property("file_path", "The path to the file to write to."),
                                 Property("content", "The content to write to the file.")>>,
                               <<"file_path", "content">>),
        func |-> Builtin("write_file")],
       [tool_call |-> ToolCall("exec_command", <<Word("Execute a shell command.")>>,
                               <<Property("command", "The command to execute.")>>,
                               <<"command">>),
        func |-> Builtin("exec_command")] >>

BuiltinNames == {BuiltinSkills[i].tool_call.name : i \in DOMAIN BuiltinSkills}

\* Skill(name, description, tool_call, func)
Skill(name, description, tool_call, func) ==
    [name |-> name, description |-> description, tool_call |-> tool_call, run |-> func]

\* register_skill as it would be without the check `name in self._skills`
register_skill_NoCheck(registry, skill_tool_call, func) ==
    [out |-> Return(<<>>),
     skills |-> DictPut(registry, skill_tool_call.name,
                        Skill(skill_tool_call.name, skill_tool_call.description, skill_tool_call, func))]

\* _register_skill: the outcome, with the dict it leaves
register_skill(registry, skill_tool_call, func) ==
    LET name        == skill_tool_call.name
        description == skill_tool_call.description
    IN  IF DictHas(registry, name)
        THEN [out |-> Raise("ValueError", <<"Duplicate", "skill:", name>>), skills |-> registry]
        ELSE [out |-> Return(<<>>),
              skills |-> DictPut(registry, name, Skill(name, description, skill_tool_call, func))]

\* skill_tool_call.pop('template'); make_run_skill(template)
make_run_skill(templ) == [kind |-> "template", templ |-> templ]

\* one turn of the loop over sorted(skills_path.iterdir())
LoadEntry ==
    /\ pc = "scan"
    /\ idx <= Len(listing)
    /\ LET entry == Sorted(listing)[idx]
       IN  IF entry.kind # "skill"
           THEN UNCHANGED <<skills, err, pc>>
           ELSE LET parsed == parse_skill(entry)
                IN  IF parsed.raised
                    THEN /\ pc' = "failed"
                         /\ err' = parsed
                         /\ UNCHANGED skills
                    ELSE LET tc  == ToolCall(parsed.val.name, parsed.val.description,
                                             parsed.val.properties, parsed.val.required)
                             reg == register_skill(skills, tc, make_run_skill(parsed.val.template))
                         IN  /\ skills' = reg.skills
                             /\ err' = IF reg.out.raised THEN reg.out ELSE err
                             /\ pc' = IF reg.out.raised THEN "failed" ELSE pc
    /\ idx' = idx + 1
    /\ UNCHANGED <<listing, fs, lastCall, lastResult, ran, invoked, schemas, pin, pout>>

\* the loop is over: on to the built-ins
ScanDone ==
    /\ pc = "scan"
    /\ idx > Len(listing)
    /\ pc' = "builtins"
    /\ idx' = 1
    /\ UNCHANGED <<listing, skills, err, fs, lastCall, lastResult, ran, invoked, schemas, pin, pout>>

\* self._register_skill(<built-in tool_call>, <built-in>), one of the three
RegisterBuiltin ==
    /\ pc = "builtins"
    /\ LET reg == register_skill(skills, BuiltinSkills[idx].tool_call, BuiltinSkills[idx].func)
       IN  /\ skills' = reg.skills
           /\ err' = IF reg.out.raised THEN reg.out ELSE err
           /\ pc' = IF reg.out.raised THEN "failed"
                    ELSE IF idx = Len(BuiltinSkills) THEN "ready" ELSE pc
    /\ idx' = idx + 1
    /\ UNCHANGED <<listing, fs, lastCall, lastResult, ran, invoked, schemas, pin, pout>>

\* json.loads(tool_call.function.arguments)
json_loads(arguments) ==
    IF arguments.valid THEN Return(arguments)
    ELSE Raise("JSONDecodeError", <<"Expecting", "value:", "line", "1", "column", "1">>)

\* _run_skill: [out, ran, fs, invoked]
inner_run_skill(registry, tool_call, files) ==
    LET name == tool_call.name
        args == json_loads(tool_call.arguments)
    IN  IF args.raised THEN [out |-> args, ran |-> <<>>, fs |-> files, invoked |-> <<>>]
        ELSE IF ~DictHas(registry, name)
        THEN [out |-> Raise("ValueError", <<"Skill", name, "not", "found.">>),
              ran |-> <<>>, fs |-> files, invoked |-> <<>>]
        ELSE IF ~args.val.object
        THEN [out |-> Raise("TypeError", <<"argument", "after", "**", "must", "be", "a", "mapping">>),
              ran |-> <<>>, fs |-> files, invoked |-> <<>>]
        ELSE LET skill == DictGet(registry, name)
                 eff   == RunHandler(skill.run, args.val.kw, files)
             IN  [out |-> eff.out, ran |-> eff.ran, fs |-> eff.fs, invoked |-> <<name>>]

\* Caught as `except ValueError` would have it
Caught_ValueErrorOnly(exc) == exc = "ValueError"

\* registry_after_run as `self._skills.pop(name)` in place of `self._skills[name]`
\* would leave the dict
registry_after_run_Pop(registry, tool_call) ==
    SelectSeq(registry, LAMBDA e : e.key # tool_call.name)

\* self._skills after _run_skill: it is read (`name in`, `[name]`), never assigned
registry_after_run(registry, tool_call) == registry

\* the classes `except Exception` catches: every one the handlers raise
Caught(exc) ==
    exc \in {"ValueError", "TypeError", "KeyError", "NameError", "FileNotFoundError", "JSONDecodeError"}

\* run_skill's try/except around _run_skill: what the caller gets
Catch(out) ==
    IF ~out.raised THEN [raised |-> FALSE, text |-> out.val]
    ELSE IF Caught(out.exc) THEN [raised |-> FALSE, text |-> <<"Error:">> \o out.msg]
    ELSE [raised |-> TRUE, text |-> out.msg]

\* get_tool_calls: json.dumps of the tool_calls, in the dict's order
get_tool_calls(registry) == [i \in DOMAIN registry |-> registry[i].val.tool_call]

\* the argument mappings a call may carry
KwArgs ==
    { <<>>,
      [name |-> <<"World">>],
      [file_path |-> <<"a.txt">>],
      [content |-> <<"hi">>],
      [file_path |-> <<"a.txt">>, content |-> <<"hi">>],
      [file_path |-> <<"missing/b.txt">>, content |-> <<"hi">>],
      [command |-> <<"exit", "3">>],
      [command |-> <<"echo", "hi">>] }

\* tool_call.function.arguments: text that is no JSON, a JSON list, or a
\* JSON object
Arguments ==
    { [valid |-> FALSE, object |-> FALSE, kw |-> <<>>],
      [valid |-> TRUE, object |-> FALSE, kw |-> <<>>] } \cup
    { [valid |-> TRUE, object |-> TRUE, kw |-> kw] : kw \in KwArgs }

CallNames == {"greet", "read_file", "write_file", "exec_command", "nope"}

\* the argument names a call of `name` is given: those its skill's schema
\* lists (a handler takes **kw and reads no other)
KnownKeys(name) ==
    CASE name = "greet"        -> {"name"}
      [] name = "read_file"    -> {"file_path"}
      [] name = "write_file"   -> {"file_path", "content"}
      [] name = "exec_command" -> {"command"}
      [] OTHER                 -> {}

Calls ==
    { c \in [name : CallNames, arguments : Arguments] :
        c.arguments.object => DOMAIN c.arguments.kw \subseteq KnownKeys(c.name) }

RunSkill ==
    /\ pc = "ready"
    /\ \E call \in Calls :
          LET name      == call.name
              arguments == call.arguments
              tool_call == [name |-> name, arguments |-> arguments]
              r         == inner_run_skill(skills, tool_call, fs)
          IN  /\ lastCall' = tool_call
              /\ lastResult' = Catch(r.out)
              /\ ran' = r.ran
              /\ invoked' = r.invoked
              /\ fs' = r.fs
              /\ skills' = registry_after_run(skills, tool_call)
    /\ UNCHANGED <<listing, pc, idx, err, schemas, pin, pout>>

GetToolCalls ==
    /\ pc = "ready"
    /\ schemas' = get_tool_calls(skills)
    /\ UNCHANGED <<listing, pc, idx, skills, err, fs, lastCall, lastResult, ran, invoked, pin, pout>>

----------------------------------------------------------------------------
(* Spec: a skills root is loaded, then the registry serves calls.          *)

MaxEntries == 2

DescriptionSection == <<[Heading("description") EXCEPT !.up = TRUE], Word("Say hello"), Blank>>

UsageSection(w) ==
    <<Heading("usage"), Template(<<Lit("echo"), Lit(w), Ph("name")>>), Dash("name", "the name to greet")>>

\* the SKILL.md files of the model
GreetDoc == <<Blank>> \o DescriptionSection \o UsageSection("hello")

ByeDoc == DescriptionSection \o UsageSection("bye")

NoUsageDoc == DescriptionSection

NoDescriptionDoc == UsageSection("hello")

EmptyDescriptionDoc == <<Heading("description"), Blank>> \o UsageSection("hello")

EmptyUsageDoc == DescriptionSection \o <<Heading("usage")>>

UndocumentedDoc == DescriptionSection \o <<Heading("usage"), Template(<<Lit("echo"), Ph("name")>>)>>

\* usage "echo {{name}}" / "- name: the name to greet"
EscapedDoc ==
    DescriptionSection \o
    <<Heading("usage"), Template(<<Lit("echo"), Esc("name")>>), Dash("name", "the name to greet")>>

\* a title line before the first heading
TitledDoc == <<Word("Greeter")>> \o GreetDoc

\* "usage" / "# ls" / "description" / "# say hi"
TextAsHeadingsDoc ==
    <<Word("usage"), Line("h", "tmpl", "", <<Lit("ls")>>, "", FALSE, FALSE),
      Word("description"), Heading("say hi")>>

SkillDocs ==
    {GreetDoc, ByeDoc, NoUsageDoc, NoDescriptionDoc, EmptyDescriptionDoc, EmptyUsageDoc,
     UndocumentedDoc, TitledDoc, TextAsHeadingsDoc, EscapedDoc}

\* what a name in the skills root may be: a plain file, a directory without
\* SKILL.md, a directory with one
Entries ==
    { [name |-> n, kind |-> "file", doc |-> <<>>] : n \in Range(DirNames) } \cup
    { [name |-> n, kind |-> "dir", doc |-> <<>>] : n \in Range(DirNames) } \cup
    { [name |-> n, kind |-> "skill", doc |-> d] : n \in Range(DirNames), d \in SkillDocs }

\* the listings of a skills root: up to MaxEntries entries, no name twice
Listings ==
    { l \in SeqsUpTo(Entries, MaxEntries) : \A i, j \in DOMAIN l : l[i].name = l[j].name => i = j }

Init ==
    /\ listing \in Listings
    /\ pc = "scan"
    /\ idx = 1
    /\ skills = <<>>
    /\ err = Return(<<>>)
    /\ fs = [p \in Paths |-> NoFile]
    /\ lastCall = NoCall
    /\ lastResult = NoResult
    /\ ran = <<>>
    /\ invoked = <<>>
    /\ schemas = <<>>
    /\ pin = <<>>
    /\ pout = <<>>

Next ==
    \/ LoadEntry
    \/ ScanDone
    \/ RegisterBuiltin
    \/ RunSkill
    \/ GetToolCalls

Spec == Init /\ [][Next]_vars

----------------------------------------------------------------------------
(* Claims about the registry.                                              *)

Called == lastCall # NoCall

Registered(name) == DictHas(skills, name)

ErrorPrefixed(text) == text # <<>> /\ text[1] = "Error:"

\* the text holds "not found"
ContainsNotFound(text) ==
    \E i \in DOMAIN text : i < Len(text) /\ text[i] = "not" /\ text[i + 1] \in {"found", "found."}

\* C1, as claimed: run_skill never raises and returns a string; for a name
\* that is not registered the string is an error string containing
\* "not found" and no handler is invoked.
C1_UnregisteredNameAnswersNotFound ==
    (pc = "ready" /\ Called) =>
        /\ ~lastResult.raised
        /\ ~Registered(lastCall.name) =>
              /\ ErrorPrefixed(lastResult.text)
              /\ ContainsNotFound(lastResult.text)
              /\ invoked = <<>>

\* C1, amended: run_skill never raises and returns a string, whatever the
\* name and whatever the handler does; for a name that is not registered no
\* handler is invoked and the string is an error string, which contains
\* "not found" when the arguments of the call are well-formed JSON (the
\* arguments are decoded before the name is looked up).
C1_RunSkillAlwaysAnswers ==
    (pc = "ready" /\ Called) =>
        /\ ~lastResult.raised
        /\ ~Registered(lastCall.name) =>
              /\ ErrorPrefixed(lastResult.text)
              /\ invoked = <<>>
              /\ lastCall.arguments.valid => ContainsNotFound(lastResult.text)
        /\ (Registered(lastCall.name) /\ lastCall.arguments.valid /\ lastCall.arguments.object) =>
              invoked = <<lastCall.name>>

\* C1's case: a call of a name that is not registered, with well-formed
\* arguments, answered with the "not found" error string, no handler invoked.
C1_Witness ==
    /\ pc = "ready"
    /\ Called
    /\ ~Registered(lastCall.name)
    /\ lastCall.arguments.valid
    /\ ~lastResult.raised
    /\ ErrorPrefixed(lastResult.text)
    /\ ContainsNotFound(lastResult.text)
    /\ invoked = <<>>

\* C2: exec_command of a command that exits non-zero ("exit 3") returns a
\* normal result carrying the exit code; it does not raise, and dispatching
\* it does not give the error-prefixed string of a handler exception.
C2_NonZeroExitIsNormalResult ==
    ( /\ pc = "ready"
      /\ lastCall.name = "exec_command"
      /\ lastCall.arguments.valid
      /\ lastCall.arguments.object
      /\ "command" \in DOMAIN lastCall.arguments.kw
      /\ Shell(lastCall.arguments.kw.command).returncode # 0 ) =>
        /\ ~lastResult.raised
        /\ ~ErrorPrefixed(lastResult.text)
        /\ ToString(Shell(lastCall.arguments.kw.command).returncode) \in Range(lastResult.text)

\* a section of a document, as 4.1 defines it: the text after the last
\* heading of that title
HasSection(doc, title) == \E i \in HeadingIdx(doc) : TitleOf(doc[i]) = <<Word(title)>>

Section(doc, title) ==
    TextAfterHeading(doc, SetMax({i \in HeadingIdx(doc) : TitleOf(doc[i]) = <<Word(title)>>}))

\* a malformed definition file: a description or usage section missing or
\* empty, or a placeholder with no description
Malformed(doc) ==
    \/ ~HasSection(doc, "description")
    \/ ~HasSection(doc, "usage")
    \/ ~HasLines(Section(doc, "description"))
    \/ ~HasLines(Section(doc, "usage"))
    \/ ~(PlaceholderSet(Section(doc, "usage")) \subseteq Documented(Section(doc, "usage")))

\* a template with each {placeholder} replaced by the supplied value
Substituted(toks, kw) ==
    Flatten([i \in DOMAIN toks |-> IF toks[i].ph THEN kw[toks[i].v] ELSE <<toks[i].v>>])

\* C3: for every loaded templated skill, a call that supplies every
\* required argument runs exactly the skill's own template with each
\* placeholder replaced by the supplied value, and returns that command's
\* captured stdout.
C3_TemplatedCallRunsOwnTemplate ==
    \A i \in DOMAIN listing :
        ( /\ pc = "ready"
          /\ listing[i].kind = "skill"
          /\ ~Malformed(listing[i].doc)
          /\ lastCall.name = listing[i].name
          /\ lastCall.arguments.valid
          /\ lastCall.arguments.object
          /\ PlaceholderSet(Section(listing[i].doc, "usage")) \subseteq DOMAIN lastCall.arguments.kw ) =>
            LET command == Substituted(TemplateLine(Section(listing[i].doc, "usage")).toks,
                                       lastCall.arguments.kw)
            IN  /\ ran = <<command>>
                /\ ~lastResult.raised
                /\ lastResult.text = Shell(command).stdout

\* What the code does there, for a template without "{{": the skill's own
\* command is run, once, and the call is answered with the error string of
\* exec_command's NameError.
TemplatedCallRunsOwnTemplateThenFails ==
    \A i \in DOMAIN listing :
        ( /\ pc = "ready"
          /\ listing[i].kind = "skill"
          /\ ~Malformed(listing[i].doc)
          /\ lastCall.name = listing[i].name
          /\ lastCall.arguments.valid
          /\ lastCall.arguments.object
          /\ \A t \in Range(TemplateLine(Section(listing[i].doc, "usage")).toks) : ~t.esc
          /\ PlaceholderSet(Section(listing[i].doc, "usage")) \subseteq DOMAIN lastCall.arguments.kw ) =>
            /\ ran = <<Substituted(TemplateLine(Section(listing[i].doc, "usage")).toks,
                                   lastCall.arguments.kw)>>
            /\ lastResult.text = <<"Error:", "name", "stderror", "is", "not", "defined">>

IsDuplicate(e) == e.raised /\ Len(e.msg) = 3 /\ e.msg[1] = "Duplicate" /\ e.msg[2] = "skill:"

SkillEntries == {e \in Range(listing) : e.kind = "skill"}

C7_SchemasInRegistrationOrder ==
    (pc = "ready" /\ schemas # <<>>) =>
        LET names == [i \in DOMAIN schemas |-> schemas[i].name]
            k     == Len(names) - 3
        IN  /\ k >= 0
            /\ SubSeq(names, k + 1, k + 3) = <<"read_file", "write_file", "exec_command">>
            /\ {names[i] : i \in 1..k} = {e.name : e \in SkillEntries}
            /\ \A i, j \in 1..k : i < j => Rank(names[i]) < Rank(names[j])
            /\ \A i, j \in DOMAIN names : names[i] = names[j] => i = j
            /\ Range(names) = Range(DictKeys(skills))
            /\ \A i \in DOMAIN schemas : schemas[i] = DictGet(skills, names[i]).tool_call

\* C7's case: two templated skills that the directory listing gave in the
\* reverse of the lexicographic order, and the schemas returned.
C7_Witness ==
    /\ pc = "ready"
    /\ Len(schemas) = 5
    /\ Len(listing) >= 2
    /\ listing[1].kind = "skill"
    /\ listing[2].kind = "skill"
    /\ Rank(listing[1].name) > Rank(listing[2].name)

\* C8: loading is all-or-nothing: if any skill directory with a definition
\* file is malformed, the load fails and no registry becomes available,
\* wherever the directory comes in the enumeration.
C8_MalformedSkillAbortsLoad ==
    pc = "ready" => \A e \in SkillEntries : ~Malformed(e.doc)

\* The same, for the definition files with nothing but blank lines before
\* their first heading: only a file with text before its first heading is
\* loaded although malformed.
MalformedLoadedOnlyWithPreamble ==
    pc = "ready" => \A e \in SkillEntries : Malformed(e.doc) => HasPreamble(e.doc)

\* A load that raised registers nothing more and serves no call.
FailedLoadServesNothing ==
    pc = "failed" => (err.raised /\ ~Called /\ schemas = <<>>)

\* the step ends with the last call being one of a registered skill whose
\* arguments, a JSON object, lack one of the names the skill's schema requires
CallLacksRequired ==
    /\ pc = "ready"
    /\ lastCall' # NoCall
    /\ Registered(lastCall'.name)
    /\ lastCall'.arguments.valid
    /\ lastCall'.arguments.object
    /\ ~(Range(DictGet(skills, lastCall'.name).tool_call.required) \subseteq DOMAIN lastCall'.arguments.kw)

\* C11: dispatching a registered skill without one of its required
\* arguments returns an error-prefixed string and has no side effect: no
\* shell command is run and no file is created, truncated or written.
C11_MissingArgumentNoEffect ==
    [][CallLacksRequired =>
          /\ ~lastResult'.raised
          /\ ErrorPrefixed(lastResult'.text)
          /\ ran' = <<>>
          /\ fs' = fs]_vars

\* The same, for the built-ins and for the templated skills whose template
\* holds no "{{name}}": only a placeholder that str.format reads as text
\* lets the command run without its argument.
MissingArgumentNoEffectUnescaped ==
    [][(CallLacksRequired
        /\ \A t \in Range(DictGet(skills, lastCall'.name).run.templ.toks) : ~t.esc) =>
          /\ ~lastResult'.raised
          /\ ErrorPrefixed(lastResult'.text)
          /\ ran' = <<>>
          /\ fs' = fs]_vars

\* C12: the registry is immutable after load: every run_skill and
\* get_tool_calls, successful or failing, in any order, leaves the set of
\* registered names, each skill's schema and bound handler, and the result
\* of get_tool_calls unchanged.
C12_RegistryImmutableAfterLoad ==
    [][pc = "ready" =>
          /\ pc' = "ready"
          /\ Range(DictKeys(skills')) = Range(DictKeys(skills))
          /\ \A n \in Range(DictKeys(skills)) :
                /\ DictHas(skills', n)
                /\ DictGet(skills', n).tool_call = DictGet(skills, n).tool_call
                /\ DictGet(skills', n).run = DictGet(skills, n).run
          /\ get_tool_calls(skills') = get_tool_calls(skills)
          /\ schemas # <<>> => schemas' = schemas]_vars

\* C12's case: the schemas have been returned and a write_file call has
\* succeeded and changed the file system.
C12_Witness ==
    /\ pc = "ready"
    /\ schemas # <<>>
    /\ lastCall.name = "write_file"
    /\ lastResult = [raised |-> FALSE, text |-> <<"None">>]
    /\ fs[<<"a.txt">>].exists
    /\ schemas = get_tool_calls(skills)

====
